---- MODULE Spec2Model ----
(***************************************************************************)
(* Verification model of whisperai: the /api/transcribe route handler      *)
(* (POST, runPythonScript, analyzeSentiment, saveAnalysisToHistory), the   *)
(* page that calls it (Home.handleUpload) and the result view              *)
(* (TranscriptionResult).                                                  *)
(***************************************************************************)
EXTENDS Integers, Sequences, FiniteSets, TLC

VARIABLES now, tmp, hist, req, py, page, view, sc

srvVars == <<now, tmp, hist, req>>
vars == <<now, tmp, hist, req, py, page, view, sc>>

(***************************************************************************)
(* Bounds                                                                  *)
(***************************************************************************)
\* last value of the millisecond clock Date.now()
MaxClock == 1
\* longest stdout (in tokens) of the transcription process
MaxOut == 3
\* most chunks the transcription process writes to stderr
MaxErr == 1
\* most uploads started in the page
MaxUploads == 2
\* most notable pauses of a speaker
MaxPauses == 12

\* the requests handled by the route, each uploading its own bytes
Req == {1, 2}
Clock == 0..MaxClock

(***************************************************************************)
(* Files: tmp is /tmp/audio-<ms>.wav, hist is history/analysis_<ms>.json,  *)
(* both indexed by the millisecond in their name.  A file holds the bytes  *)
(* of request `by`, wholly (full) or only a prefix of them.                *)
(***************************************************************************)
NoFile == [by |-> 0, full |-> FALSE]
FileOf(r, whole) == [by |-> r, full |-> whole]
Exists(f) == f.by # 0

(***************************************************************************)
(* stdout of the transcription process, as a sequence of tokens.           *)
(***************************************************************************)
Noise == [t |-> "noise", success |-> FALSE, transcription |-> 0, error |-> "", rich |-> FALSE]
LB == [t |-> "{", success |-> FALSE, transcription |-> 0, error |-> "", rich |-> FALSE]
RB == [t |-> "}", success |-> FALSE, transcription |-> 0, error |-> "", rich |-> FALSE]
\* the members of a result object: "success": s, "transcription": tr, "error": e
\* and, when rich, "speaker_analysis": {...}, "comparison": {...}
Members(s, tr, e, rich) ==
  [t |-> "members", success |-> s, transcription |-> tr, error |-> e, rich |-> rich]
\* the start of a members list that is cut off
Broken == [t |-> "broken", success |-> FALSE, transcription |-> 0, error |-> "", rich |-> FALSE]

(***************************************************************************)
(* TranscriptionResult objects (route.ts interface TranscriptionResult,    *)
(* plus the speaker_analysis and comparison the script may add).           *)
(***************************************************************************)
NoResult ==
  [success |-> FALSE, transcription |-> 0, error |-> "",
   speaker_analysis |-> "", comparison |-> ""]
ResultOf(m) ==
  [success |-> m.success, transcription |-> m.transcription, error |-> m.error,
   speaker_analysis |-> IF m.rich THEN "speaker_analysis" ELSE "",
   comparison |-> IF m.rich THEN "comparison" ELSE ""]

(***************************************************************************)
(* runPythonScript: the promise and its close handler.                     *)
(***************************************************************************)
Pending == [state |-> "pending", value |-> NoResult, reason |-> ""]
Resolved(v) == [state |-> "resolved", value |-> v, reason |-> ""]
Rejected(e) == [state |-> "rejected", value |-> NoResult, reason |-> e]

\* a promise settles once: resolve and reject of a settled promise do nothing
Settle(p, outcome) == IF p.state = "pending" THEN outcome ELSE p

Braces(out, b) == {i \in 1..Len(out) : out[i].t = b}
Min(S) == CHOOSE x \in S : \A y \in S : x <= y
Max(S) == CHOOSE x \in S : \A y \in S : x >= y

\* stdout.match(/\{[\s\S]*\}/): from the first "{" to the last "}" after it;
\* the empty sequence stands for null (no match)
jsonMatch(out) ==
  LET ls == Braces(out, "{")
      rs == Braces(out, "}")
  IN  IF ls = {} \/ rs = {} THEN <<>>
      ELSE IF Max(rs) < Min(ls) THEN <<>>
      ELSE SubSeq(out, Min(ls), Max(rs))

\* JSON.parse accepts exactly one object: "{}" or "{" members "}"
Parseable(txt) ==
  \/ txt = <<LB, RB>>
  \/ Len(txt) = 3 /\ txt[1] = LB /\ txt[2].t = "members" /\ txt[3] = RB

JSONparse(txt) == IF Len(txt) = 3 THEN ResultOf(txt[2]) ELSE NoResult

ExitedMsg == "Python process exited with code"
ParseMsg == "Failed to parse Python output"
SpawnMsg == "spawn ENOENT"

\* the close handler without its test of the exit code
onCloseAnyCode(code, out) ==
  IF jsonMatch(out) = <<>> THEN Rejected(ParseMsg)
  ELSE IF ~Parseable(jsonMatch(out)) THEN Rejected(ParseMsg)
  ELSE Resolved(JSONparse(jsonMatch(out)))

\* pythonProcess.on('close', ...)
onClose(code, out) ==
  IF code # 0 THEN Rejected(ExitedMsg)
  ELSE IF jsonMatch(out) = <<>> THEN Rejected(ParseMsg)
  ELSE IF ~Parseable(jsonMatch(out)) THEN Rejected(ParseMsg)
  ELSE Resolved(JSONparse(jsonMatch(out)))

\* pythonProcess.on('error', ...)
onError == Rejected(SpawnMsg)

\* what the transcription script can print after reading audio file h: it can
\* report success only for a file it found, and then transcribes what it read
ScriptOutputs(h) ==
  {<<>>, <<Noise>>, <<LB, RB>>, <<LB, Broken>>,
   <<LB, Members(FALSE, 0, "Could not load audio", FALSE), RB>>,
   <<Noise, LB, Members(FALSE, 0, "", FALSE), RB>>}
  \cup (IF Exists(h)
        THEN {<<Noise, LB, Members(TRUE, h.by, "", rich), RB>> : rich \in BOOLEAN}
             \cup {<<LB, RB, Noise, LB, Members(TRUE, h.by, "", FALSE), RB>>}
        ELSE {})

ExitCodes == {0, 1}

(***************************************************************************)
(* analyzeSentiment                                                        *)
(***************************************************************************)
DefaultSentiment == "No sentiment analysis available"
Critique == "critique"
\* completion.choices[0].message.content: a text, "" or null (both falsy)
Contents == {Critique, ""}

\* completion.choices[0].message.content || "No sentiment analysis available"
analyzeSentiment(content) == IF content = "" THEN DefaultSentiment ELSE content

(***************************************************************************)
(* POST: one record per request, holding the handler's locals and its      *)
(* position (pc) between awaits.                                           *)
(***************************************************************************)
NoPath == -1
NoFinal ==
  [success |-> FALSE, transcription |-> 0, error |-> "",
   speaker_analysis |-> "", comparison |-> "", sentiment |-> ""]
\* { ...result, sentiment }
finalResult(result, sentiment) ==
  [success |-> result.success, transcription |-> result.transcription,
   error |-> result.error, speaker_analysis |-> result.speaker_analysis,
   comparison |-> result.comparison, sentiment |-> sentiment]

NoResponse == [status |-> 0, error |-> "", body |-> NoFinal]
\* NextResponse.json(finalResult)
JsonOk(final) == [status |-> 200, error |-> "", body |-> final]
\* NextResponse.json({ error }, { status })
JsonError(msg, code) == [status |-> code, error |-> msg, body |-> NoFinal]

NoAudioMsg == "No audio file provided"
TranscriptionFailedMsg == "Transcription failed"
FormDataMsg == "Failed to parse body as FormData"
WriteMsg == "EIO: write"
UnlinkMsg == "ENOENT: unlink"
OpenAIMsg == "OpenAI request failed"

NewReq ==
  [pc |-> "new", tempAudioPath |-> NoPath, heard |-> NoFile, result |-> NoResult,
   final |-> NoFinal, filename |-> NoPath, saved |-> "none", cleanup |-> "none",
   error |-> "", response |-> NoResponse]

SrvInit ==
  /\ now = 0
  /\ tmp = [t \in Clock |-> NoFile]
  /\ hist = [t \in Clock |-> NoFile]
  /\ req = [r \in Req |-> NewReq]

\* Date.now() advances
Tick ==
  /\ now < MaxClock
  /\ now' = now + 1
  /\ UNCHANGED <<tmp, hist, req>>

\* the handler returns resp: its locals are gone; what stays of the request is
\* its response, whether its history append succeeded and how its last unlink
\* of the temporary file ended
Return(q, resp) ==
  [NewReq EXCEPT !.pc = "done", !.saved = q.saved, !.cleanup = q.cleanup,
                 !.response = resp]

\* the catch block of POST, entered with error message msg: with a temporary
\* file to clean up the handler awaits unlink, otherwise it answers at once
Caught(q, msg) ==
  IF q.tempAudioPath # NoPath
  THEN [q EXCEPT !.pc = "catch_unlink", !.error = msg]
  ELSE Return(q, JsonError(msg, 500))

Bodies == {"audio", "no_audio", "malformed"}

\* request.formData() and the audio check
Receive(r, body) ==
  /\ req[r].pc = "new"
  /\ req' = [req EXCEPT ![r] =
       CASE body = "malformed" -> Caught(@, FormDataMsg)
         [] body = "no_audio" ->
              Return(@, JsonError(NoAudioMsg, 400))
         [] OTHER -> [@ EXCEPT !.pc = "buffer"]]
  /\ UNCHANGED <<now, tmp, hist>>

(***************************************************************************)
(* fs writeFile(path, data): opens the file (creating or truncating it),   *)
(* writes the data, closes.  It is not atomic: between the open and the    *)
(* end of the write the file holds a prefix, and a write that fails leaves *)
(* what it had written.                                                    *)
(***************************************************************************)
Opened(f, r) == FileOf(r, FALSE)

\* the contents after r's write has ended: a file unlinked meanwhile stays
\* gone; a file another writer opened meanwhile holds r's bytes or a mix
WriteLand(f, r) ==
  IF ~Exists(f) THEN {NoFile}
  ELSE IF f.by = r THEN {FileOf(r, TRUE)}
  ELSE {FileOf(r, TRUE), FileOf(r, FALSE)}

\* tempAudioPath = join(tempDir, `audio-${Date.now()}.wav`); writeFile is called
TempName(r) ==
  /\ req[r].pc = "buffer"
  /\ req' = [req EXCEPT ![r] = [@ EXCEPT !.pc = "tmp_open", !.tempAudioPath = now]]
  /\ UNCHANGED <<now, tmp, hist>>

\* await writeFile(tempAudioPath, audioBuffer): the open
TempOpen(r, ok) ==
  /\ req[r].pc = "tmp_open"
  /\ IF ok
     THEN /\ tmp' = [tmp EXCEPT ![req[r].tempAudioPath] = Opened(@, r)]
          /\ req' = [req EXCEPT ![r] = [@ EXCEPT !.pc = "tmp_write"]]
     ELSE /\ req' = [req EXCEPT ![r] = Caught(@, WriteMsg)]
          /\ UNCHANGED tmp
  /\ UNCHANGED <<now, hist>>

\* await writeFile(tempAudioPath, audioBuffer): the write and the return
TempWrite(r, ok) ==
  /\ req[r].pc = "tmp_write"
  /\ IF ok
     THEN /\ \E f \in WriteLand(tmp[req[r].tempAudioPath], r) :
               tmp' = [tmp EXCEPT ![req[r].tempAudioPath] = f]
          /\ req' = [req EXCEPT ![r] = [@ EXCEPT !.pc = "spawn"]]
     ELSE /\ req' = [req EXCEPT ![r] = Caught(@, WriteMsg)]
          /\ UNCHANGED tmp
  /\ UNCHANGED <<now, hist>>

\* the transcription process reads the file at audioPath
PyRead(r) ==
  /\ req[r].pc = "spawn"
  /\ req' = [req EXCEPT ![r] =
       [@ EXCEPT !.pc = "running", !.heard = tmp[req[r].tempAudioPath]]]
  /\ UNCHANGED <<now, tmp, hist>>

\* const result = await runPythonScript(...); if (!result.success) throw ...
Transcribed(q, settled) ==
  IF settled.state = "rejected" THEN Caught([q EXCEPT !.heard = NoFile], settled.reason)
  ELSE IF ~settled.value.success
  THEN Caught([q EXCEPT !.heard = NoFile],
              IF settled.value.error # "" THEN settled.value.error
              ELSE TranscriptionFailedMsg)
  ELSE [q EXCEPT !.pc = "sentiment", !.result = settled.value, !.heard = NoFile]

\* the process could not be started: 'error' settles the promise
PyError(r) ==
  /\ req[r].pc = "spawn"
  /\ req' = [req EXCEPT ![r] = Transcribed(@, Settle(Pending, onError))]
  /\ UNCHANGED <<now, tmp, hist>>

\* the process ends: 'close' settles the promise
PyClose(r, code) ==
  /\ req[r].pc \in {"spawn", "running"}
  /\ \E out \in ScriptOutputs(req[r].heard) :
       req' = [req EXCEPT ![r] = Transcribed(@, Settle(Pending, onClose(code, out)))]
  /\ UNCHANGED <<now, tmp, hist>>

\* const sentiment = await analyzeSentiment(...); const finalResult = {...}; the
\* call of saveAnalysisToHistory up to its await of mkdir
Sentiment(r, throws, content) ==
  /\ req[r].pc = "sentiment"
  /\ req' = [req EXCEPT ![r] =
       IF throws THEN Caught(@, OpenAIMsg)
       ELSE [@ EXCEPT !.pc = "mkdir", !.result = NoResult,
                      !.final = finalResult(req[r].result, analyzeSentiment(content))]]
  /\ UNCHANGED <<now, tmp, hist>>

\* saveAnalysisToHistory without its try/catch: the failure reaches POST's catch
SaveThrows(q) == Caught([q EXCEPT !.saved = "failed"], WriteMsg)

\* the catch block of saveAnalysisToHistory: console.error, and the function
\* returns normally
SaveCaught(q) == [q EXCEPT !.pc = "unlink", !.saved = "failed"]

\* await fs.promises.mkdir(historyDir); filename = `analysis_${Date.now()}.json`
HistMkdir(r, ok) ==
  /\ req[r].pc = "mkdir"
  /\ req' = [req EXCEPT ![r] =
       IF ok THEN [@ EXCEPT !.pc = "hist_open", !.filename = now]
       ELSE SaveCaught(@)]
  /\ UNCHANGED <<now, tmp, hist>>

\* await fs.promises.writeFile(join(historyDir, filename), ...): the open
HistOpen(r, ok) ==
  /\ req[r].pc = "hist_open"
  /\ IF ok
     THEN /\ hist' = [hist EXCEPT ![req[r].filename] = Opened(@, r)]
          /\ req' = [req EXCEPT ![r] = [@ EXCEPT !.pc = "hist_write"]]
     ELSE /\ req' = [req EXCEPT ![r] = SaveCaught(@)]
          /\ UNCHANGED hist
  /\ UNCHANGED <<now, tmp>>

\* await fs.promises.writeFile(join(historyDir, filename), ...): the write
HistWrite(r, ok) ==
  /\ req[r].pc = "hist_write"
  /\ IF ok
     THEN /\ \E f \in WriteLand(hist[req[r].filename], r) :
               hist' = [hist EXCEPT ![req[r].filename] = f]
          /\ req' = [req EXCEPT ![r] = [@ EXCEPT !.pc = "unlink", !.saved = "saved"]]
     ELSE /\ req' = [req EXCEPT ![r] = SaveCaught(@)]
          /\ UNCHANGED hist
  /\ UNCHANGED <<now, tmp>>

\* if (tempAudioPath) await unlink(tempAudioPath); return NextResponse.json(finalResult)
Unlink(r, fails) ==
  /\ req[r].pc = "unlink"
  /\ IF ~fails /\ Exists(tmp[req[r].tempAudioPath])
     THEN /\ tmp' = [tmp EXCEPT ![req[r].tempAudioPath] = NoFile]
          /\ req' = [req EXCEPT ![r] =
               Return([@ EXCEPT !.cleanup = "removed"], JsonOk(req[r].final))]
     ELSE /\ req' = [req EXCEPT ![r] =
               Caught([@ EXCEPT !.cleanup = "failed"], UnlinkMsg)]
          /\ UNCHANGED tmp
  /\ UNCHANGED <<now, hist>>

\* the catch block without its unlink: the 500 response at once
CatchNoUnlink(r, fails) ==
  /\ req[r].pc = "catch_unlink"
  /\ req' = [req EXCEPT ![r] = Return(@, JsonError(req[r].error, 500))]
  /\ UNCHANGED <<now, tmp, hist>>

\* catch: try { await unlink(tempAudioPath) } catch { log }; the 500 response
CatchUnlink(r, fails) ==
  /\ req[r].pc = "catch_unlink"
  /\ tmp' = IF ~fails /\ Exists(tmp[req[r].tempAudioPath])
            THEN [tmp EXCEPT ![req[r].tempAudioPath] = NoFile]
            ELSE tmp
  /\ req' = [req EXCEPT ![r] =
       Return([@ EXCEPT !.cleanup =
                 IF ~fails /\ Exists(tmp[req[r].tempAudioPath])
                 THEN "removed" ELSE "failed"],
              JsonError(req[r].error, 500))]
  /\ UNCHANGED <<now, hist>>

SrvNext ==
  \/ Tick
  \/ \E r \in Req, body \in Bodies : Receive(r, body)
  \/ \E r \in Req : TempName(r)
  \/ \E r \in Req, ok \in BOOLEAN : TempOpen(r, ok)
  \/ \E r \in Req, ok \in BOOLEAN : TempWrite(r, ok)
  \/ \E r \in Req : PyRead(r)
  \/ \E r \in Req : PyError(r)
  \/ \E r \in Req, code \in ExitCodes : PyClose(r, code)
  \/ \E r \in Req, throws \in BOOLEAN, content \in Contents : Sentiment(r, throws, content)
  \/ \E r \in Req, ok \in BOOLEAN : HistMkdir(r, ok)
  \/ \E r \in Req, ok \in BOOLEAN : HistOpen(r, ok)
  \/ \E r \in Req, ok \in BOOLEAN : HistWrite(r, ok)
  \/ \E r \in Req, fails \in BOOLEAN : Unlink(r, fails)
  \/ \E r \in Req, fails \in BOOLEAN : CatchUnlink(r, fails)

(***************************************************************************)
(* runPythonScript, event by event: one call, the child process doing what *)
(* py.plan says (its whole stdout), py.code (its exit code) and            *)
(* py.spawnFails (it could not be started).                                *)
(***************************************************************************)
Tokens == {Noise, LB, RB, Broken, Members(TRUE, 1, "", FALSE)}
SeqsUpTo(n) == UNION {[1..k -> Tokens] : k \in 0..n}
SpawnCode == -2

PyIdle ==
  py = [plan |-> <<>>, code |-> 0, spawnFails |-> FALSE, stdout |-> <<>>,
        stderr |-> 0, closed |-> FALSE, errored |-> FALSE, atClose |-> <<>>,
        promise |-> Pending]

\* a process that cannot be started prints nothing and closes with a negative code
PyInit ==
  \E plan \in SeqsUpTo(MaxOut), code \in ExitCodes \cup {SpawnCode} :
    /\ code = SpawnCode => plan = <<>>
    /\ py = [plan |-> plan, code |-> code, spawnFails |-> (code = SpawnCode),
             stdout |-> <<>>, stderr |-> 0, closed |-> FALSE, errored |-> FALSE,
             atClose |-> <<>>, promise |-> Pending]

\* pythonProcess.stdout.on('data', ...): the next k tokens arrive
PyStdout(k) ==
  /\ ~py.closed
  /\ Len(py.stdout) + k <= Len(py.plan)
  /\ py' = [py EXCEPT !.stdout =
              @ \o SubSeq(py.plan, Len(py.stdout) + 1, Len(py.stdout) + k)]
  /\ UNCHANGED <<srvVars, page, view, sc>>

\* pythonProcess.stderr.on('data', ...)
PyStderr ==
  /\ ~py.closed /\ ~py.spawnFails
  /\ py.stderr < MaxErr
  /\ py' = [py EXCEPT !.stderr = @ + 1]
  /\ UNCHANGED <<srvVars, page, view, sc>>

\* pythonProcess.on('close', ...): emitted once, after the stdio streams ended
PyOnClose ==
  /\ ~py.closed
  /\ py.stdout = py.plan
  /\ py' = [py EXCEPT !.closed = TRUE, !.atClose = py.stdout,
                      !.promise = Settle(@, onClose(py.code, py.stdout))]
  /\ UNCHANGED <<srvVars, page, view, sc>>

\* pythonProcess.on('error', ...): the process could not be spawned
PyOnError ==
  /\ py.spawnFails /\ ~py.errored
  /\ py' = [py EXCEPT !.errored = TRUE, !.promise = Settle(@, onError)]
  /\ UNCHANGED <<srvVars, page, view, sc>>

PyNext ==
  \/ \E k \in 1..MaxOut : PyStdout(k)
  \/ PyStderr
  \/ PyOnClose
  \/ PyOnError

(***************************************************************************)
(* The page (Home): its state, handleUpload between its awaits, and what   *)
(* it renders.                                                             *)
(***************************************************************************)
\* responses POST gives: 200 with a final result (one of them carrying an
\* error field), 400 and 500 with an error
PostResponses ==
  {JsonOk(finalResult(ResultOf(Members(TRUE, b, "", rich)), s)) :
     b \in Req, rich \in BOOLEAN, s \in {Critique, DefaultSentiment}}
  \cup {JsonOk(finalResult(ResultOf(Members(TRUE, 1, "low confidence", FALSE)),
                           Critique))}
  \cup {JsonError(NoAudioMsg, 400)}
  \cup {JsonError(m, 500) : m \in {TranscriptionFailedMsg, ExitedMsg, OpenAIMsg}}

\* what fetch resolves with: the status and the body, JSON or not
Wire(resp) ==
  [status |-> resp.status, json |-> TRUE,
   data |-> IF resp.status = 200 THEN resp.body
            ELSE [NoFinal EXCEPT !.error = resp.error]]
\* an answer that is no JSON (an HTML error page of the server or of a proxy)
NotJson == [status |-> 502, json |-> FALSE, data |-> NoFinal]
NoFetched == [status |-> 0, json |-> FALSE, data |-> NoFinal]
Fetched == {Wire(resp) : resp \in PostResponses} \cup {NotJson}

FailedMsg == "Failed to process audio file"
FetchMsg == "Failed to fetch"
SyntaxMsg == "Unexpected token < in JSON"

\* the calls of handleUpload, numbered in the order they start
Uploads == 1..MaxUploads
NoCall == [pc |-> "none", response |-> NoFetched]

\* useState(false), useState(null), useState(''), useState(''); disabled is
\* the isLoading of the last render, which is what the dropzone was given, and
\* data is the response data that the result in transcription and sentiment
\* was taken from
PageInit ==
  page = [isLoading |-> FALSE, disabled |-> FALSE, error |-> "",
          transcription |-> 0, sentiment |-> "", data |-> NoFinal,
          uploads |-> 0, calls |-> [u \in Uploads |-> NoCall]]

\* catch (error) { setError(...); setTranscription(''); setSentiment('') }
\* without the finally block
UploadFailedNoFinally(p, u, msg) ==
  [p EXCEPT !.error = msg, !.transcription = 0, !.sentiment = "",
            !.data = NoFinal,
            !.calls[u] = [pc |-> "done", response |-> NoFetched]]

\* catch (error) { setError(...); setTranscription(''); setSentiment('') }
\* finally { setIsLoading(false) }
UploadFailed(p, u, msg) ==
  [p EXCEPT !.error = msg, !.transcription = 0, !.sentiment = "",
            !.data = NoFinal, !.isLoading = FALSE,
            !.calls[u] = [pc |-> "done", response |-> NoFetched]]

\* setTranscription(data.transcription); setSentiment(data.sentiment)
\* finally { setIsLoading(false) }
UploadDone(p, u, data) ==
  [p EXCEPT !.transcription = data.transcription, !.sentiment = data.sentiment,
            !.data = data, !.isLoading = FALSE,
            !.calls[u] = [pc |-> "done", response |-> NoFetched]]

\* response.ok
Ok(resp) == resp.status >= 200 /\ resp.status <= 299

\* Home renders again: AudioUploader gets isLoading={isLoading} and hands it to
\* useDropzone as disabled
HomeRender ==
  /\ page.disabled # page.isLoading
  /\ page' = [page EXCEPT !.disabled = page.isLoading]
  /\ UNCHANGED <<srvVars, py, view, sc>>

\* onDrop of AudioUploader (the dropzone is disabled when it was rendered with
\* isLoading) and the start of handleUpload, up to its await of fetch;
\* handleUpload itself does not look at isLoading
Drop(n) ==
  /\ ~page.disabled
  /\ page.uploads < MaxUploads
  /\ page' = IF n > 0
             THEN [page EXCEPT !.isLoading = TRUE, !.error = "",
                               !.uploads = @ + 1,
                               !.calls[page.uploads + 1] =
                                  [pc |-> "fetch", response |-> NoFetched]]
             ELSE page
  /\ UNCHANGED <<srvVars, py, view, sc>>

\* fetch rejects (network failure)
FetchThrows(u) ==
  /\ page.calls[u].pc = "fetch"
  /\ page' = UploadFailed(page, u, FetchMsg)
  /\ UNCHANGED <<srvVars, py, view, sc>>

\* fetch resolves with a response; handleUpload awaits response.json()
FetchResolves(u, resp) ==
  /\ page.calls[u].pc = "fetch"
  /\ page' = [page EXCEPT !.calls[u] = [pc |-> "json", response |-> resp]]
  /\ UNCHANGED <<srvVars, py, view, sc>>

\* response.json() settles, and the rest of handleUpload runs
JsonSettles(u) ==
  /\ page.calls[u].pc = "json"
  /\ page' =
       LET response == page.calls[u].response
       IN  IF ~response.json THEN UploadFailed(page, u, SyntaxMsg)
           ELSE LET data == response.data
                IN  IF ~Ok(response)
                    THEN UploadFailed(page, u, IF data.error # "" THEN data.error
                                               ELSE FailedMsg)
                    ELSE IF data.error # "" THEN UploadFailed(page, u, data.error)
                    ELSE UploadDone(page, u, data)
  /\ UNCHANGED <<srvVars, py, view, sc>>

\* {transcription && <TranscriptionResult transcription=... sentiment=... />}
HomeView(p) ==
  [shown |-> p.transcription # 0, transcription |-> p.transcription,
   sentiment |-> p.sentiment, speaker_analysis |-> "", comparison |-> ""]

PageNext ==
  \/ \E n \in {0, 1} : Drop(n)
  \/ HomeRender
  \/ \E u \in Uploads : FetchThrows(u)
  \/ \E u \in Uploads, resp \in Fetched : FetchResolves(u, resp)
  \/ \E u \in Uploads : JsonSettles(u)

(***************************************************************************)
(* The result view (TranscriptionResult): what it displays of the scores   *)
(* in its props.  Scores are in thousandths (500 is 0.5, 7000 is 7).       *)
(***************************************************************************)
ScoreValues == {0, 500, 1000, 7000}
SpeakerScores ==
  [pace_score : ScoreValues, confidence_score : ScoreValues,
   pause_score : ScoreValues, overall_score : ScoreValues]
NoScores ==
  [pace_score |-> 0, confidence_score |-> 0, pause_score |-> 0, overall_score |-> 0]

\* the props: whether speaker_analysis (with the speaker's stats) and comparison
\* are given, comparison.overall_score and comparison.speaker_scores[speaker]
Props ==
  [speaker_analysis : BOOLEAN, comparison : BOOLEAN, overall_score : ScoreValues,
   speaker_scores : SpeakerScores]
NoProps ==
  [speaker_analysis |-> FALSE, comparison |-> FALSE, overall_score |-> 0,
   speaker_scores |-> NoScores]

ViewIdle == view = [props |-> NoProps, rendered |-> FALSE, shows |-> {}]
ViewInit ==
  \E props \in Props :
    /\ ~props.comparison => props.overall_score = 0 /\ props.speaker_scores = NoScores
    /\ view = [props |-> props, rendered |-> FALSE, shows |-> {}]

\* Math.round(x) of x = n / d, for n >= 0
Round(n, d) == (2 * n + d) \div (2 * d)

\* a displayed number: num out of den is the share of the full score shown
Shown(site, field, num, den) == [site |-> site, field |-> field, num |-> num, den |-> den]

\* "Performance Scores": {Math.round(score * 100)}%
PercentOfFraction(field, n) == Shown("Performance Scores", field, Round(n * 100, 1000), 100)
\* "Overall Conversation Score": {Math.round(comparison.overall_score)}%
PercentOfPercent(field, n) == Shown("Overall Conversation Score", field, Round(n, 1000), 100)
\* "Performance": {score}/10
OutOfTen(field, n) == Shown("Performance", field, n, 10000)

\* the score displays of one render of the component
ScoreDisplays(props) ==
  (IF props.speaker_analysis /\ props.comparison
   THEN {PercentOfFraction("pace_score", props.speaker_scores.pace_score),
         PercentOfFraction("confidence_score", props.speaker_scores.confidence_score),
         PercentOfFraction("pause_score", props.speaker_scores.pause_score)}
   ELSE {})
  \cup (IF props.comparison
        THEN {PercentOfPercent("comparison.overall_score", props.overall_score),
              OutOfTen("pace_score", props.speaker_scores.pace_score),
              OutOfTen("confidence_score", props.speaker_scores.confidence_score),
              OutOfTen("pause_score", props.speaker_scores.pause_score),
              OutOfTen("overall_score", props.speaker_scores.overall_score)}
        ELSE {})

\* the component renders its props
Render ==
  /\ ~view.rendered
  /\ view' = [view EXCEPT !.rendered = TRUE, !.shows = ScoreDisplays(view.props)]
  /\ UNCHANGED <<srvVars, py, page, sc>>

ViewNext == Render

(***************************************************************************)
(* The Scoring Engine, score(stats, config), which fills the SpeakerScores *)
(* the view displays.  Numbers are exact fractions <<numerator,            *)
(* denominator>> with a positive denominator.                              *)
(***************************************************************************)
RECURSIVE GCD(_, _)
GCD(a, b) == IF b = 0 THEN a ELSE GCD(b, a % b)
\* n / d in lowest terms
Frac(n, d) ==
  LET g == GCD(IF n < 0 THEN -n ELSE n, d)
  IN  <<n \div g, d \div g>>
Zero == Frac(0, 1)
One == Frac(1, 1)
Half == Frac(1, 2)
FLe(a, b) == a[1] * b[2] <= b[1] * a[2]
FAdd(a, b) == Frac(a[1] * b[2] + b[1] * a[2], a[2] * b[2])
FSub(a, b) == Frac(a[1] * b[2] - b[1] * a[2], a[2] * b[2])
FMul(a, b) == Frac(a[1] * b[1], a[2] * b[2])
FMin(a, b) == IF FLe(a, b) THEN a ELSE b
FMax(a, b) == IF FLe(a, b) THEN b ELSE a
FAbs(a) == Frac(IF a[1] < 0 THEN -a[1] ELSE a[1], a[2])
FEq(a, b) == a[1] * b[2] = b[1] * a[2]

\* SpeakerStats, with words_per_minute = word_count / (total_duration / 60);
\* the pauses are `pauses` in number, pause_s seconds each
Stats ==
  [word_count : {0, 5, 10, 30}, total_duration : {2, 4, 12},
   average_confidence : {Frac(0, 10), Frac(5, 10), Frac(9, 10), Frac(10, 10)},
   pauses : {0, 2, MaxPauses}, pause_s : {1, 3}]
words_per_minute(stats) == Frac(stats.word_count * 60, stats.total_duration)

\* ScoringConfig: ideal pace, pace bounds, weights (pace, confidence, pause) in tenths
Configs ==
  [ideal_pace_wpm : {150, 120},
   pace_bounds : {<<80, 220>>, <<100, 140>>, <<220, 80>>},
   weights : {<<4, 3, 3>>, <<10, 0, 0>>, <<5, 5, 5>>, <<15, -5, 0>>, <<-2, 6, 6>>}]

\* InvalidConfigError: weights that do not sum to 1, or inverted bounds
ValidConfig(config) ==
  /\ config.weights[1] + config.weights[2] + config.weights[3] = 10
  /\ config.pace_bounds[1] < config.pace_bounds[2]

\* max(0, 1 - |wpm - ideal| / half_range) taken without the max
pace_score_unclamped(stats, config) ==
  FSub(One,
       FMul(FAbs(FSub(words_per_minute(stats), Frac(config.ideal_pace_wpm, 1))),
            Frac(2, config.pace_bounds[2] - config.pace_bounds[1])))

\* pace_score = max(0, 1 - |wpm - ideal| / half_range), half_range being half
\* the distance between the bounds
pace_score(stats, config) ==
  FMax(Zero,
       FSub(One,
            FMul(FAbs(FSub(words_per_minute(stats), Frac(config.ideal_pace_wpm, 1))),
                 Frac(2, config.pace_bounds[2] - config.pace_bounds[1]))))

\* confidence_score = average_confidence
confidence_score(stats) == stats.average_confidence

\* start at 1, subtract min(0.5, 0.05 * count_of_pauses) and
\* min(0.5, sum_of_pause_durations / total_duration), floor at 0
pause_score(stats) ==
  FMax(Zero,
       FSub(FSub(One, FMin(Half, Frac(5 * stats.pauses, 100))),
            FMin(Half, Frac(stats.pauses * stats.pause_s, stats.total_duration))))

\* overall_score = w1 * pace_score + w2 * confidence_score + w3 * pause_score
overall_score(stats, config) ==
  FAdd(FAdd(FMul(Frac(config.weights[1], 10), pace_score(stats, config)),
            FMul(Frac(config.weights[2], 10), confidence_score(stats))),
       FMul(Frac(config.weights[3], 10), pause_score(stats)))

NoScore ==
  [pace_score |-> Zero, confidence_score |-> Zero, pause_score |-> Zero,
   overall_score |-> Zero]
score(stats, config) ==
  [pace_score |-> pace_score(stats, config),
   confidence_score |-> confidence_score(stats),
   pause_score |-> pause_score(stats),
   overall_score |-> overall_score(stats, config)]

NoStats ==
  [word_count |-> 0, total_duration |-> 2, average_confidence |-> Frac(0, 10),
   pauses |-> 0, pause_s |-> 1]
DefaultConfig ==
  [ideal_pace_wpm |-> 150, pace_bounds |-> <<80, 220>>, weights |-> <<4, 3, 3>>]

ScoreIdle ==
  sc = [stats |-> NoStats, config |-> DefaultConfig, state |-> "idle", score |-> NoScore]
ScoreInit ==
  \E stats \in Stats, config \in Configs :
    sc = [stats |-> stats, config |-> config, state |-> "new", score |-> NoScore]

\* the engine refuses the configuration
RejectConfig ==
  /\ sc.state = "new"
  /\ ~ValidConfig(sc.config)
  /\ sc' = [sc EXCEPT !.state = "InvalidConfigError"]
  /\ UNCHANGED <<srvVars, py, page, view>>

\* the engine scores the speaker
ScoreSpeaker ==
  /\ sc.state = "new"
  /\ ValidConfig(sc.config)
  /\ sc' = [sc EXCEPT !.state = "scored", !.score = score(sc.stats, sc.config)]
  /\ UNCHANGED <<srvVars, py, page, view>>

ScoreNext == RejectConfig \/ ScoreSpeaker

Init == SrvInit /\ PyIdle /\ PageInit /\ ViewIdle /\ ScoreIdle
Next == SrvNext /\ UNCHANGED <<py, page, view, sc>>
Spec == Init /\ [][Next]_vars

InitPy == SrvInit /\ PyInit /\ PageInit /\ ViewIdle /\ ScoreIdle
SpecPy == InitPy /\ [][PyNext]_vars

SpecPage == Init /\ [][PageNext]_vars

\* the page when every fetch settles and every response.json() settles
PageFairness ==
  \A u \in Uploads :
    /\ WF_vars(FetchThrows(u) \/ \E resp \in Fetched : FetchResolves(u, resp))
    /\ WF_vars(JsonSettles(u))
SpecPageFair == Init /\ [][PageNext]_vars /\ PageFairness

InitView == SrvInit /\ PyIdle /\ PageInit /\ ViewInit /\ ScoreIdle
SpecView == InitView /\ [][ViewNext]_vars

InitScore == SrvInit /\ PyIdle /\ PageInit /\ ViewIdle /\ ScoreInit
SpecScore == InitScore /\ [][ScoreNext]_vars

(***************************************************************************)
(* Claims about the route handler                                          *)
(***************************************************************************)
Finished(r) == req[r].pc = "done"
Assembled(b) ==
  b.success /\ b.transcription # 0 /\ b.sentiment \in {Critique, DefaultSentiment}

C2_ErrorMeansNoAppend ==
  \A r \in Req :
    (Finished(r) /\ req[r].response.status \in {400, 500}) => req[r].saved # "saved"

\* C3: the history store is append-only: every request whose append succeeded
\* still has its own complete record in the store, whatever the other requests
\* appended since (N successful appends leave N records).
C3_AppendOnly ==
  \A r \in Req :
    req[r].saved = "saved" => \E t \in Clock : hist[t] = FileOf(r, TRUE)

\* C4: each append is atomic: the history store never holds a record that
\* exists but holds only part of an appended result.
C4_AtomicAppend == \A t \in Clock : Exists(hist[t]) => hist[t].full

\* C5: the temporary audio file of a request is its own from the end of its
\* write to its cleanup: no other request overwrites or removes it, and the
\* transcription process reads exactly the bytes the request wrote.
C5_TempFileIsolated ==
  \A r \in Req :
    /\ req[r].pc \in {"spawn", "running", "sentiment", "mkdir", "hist_open",
                      "hist_write", "unlink"}
         => tmp[req[r].tempAudioPath] = FileOf(r, TRUE)
    /\ req[r].pc = "running" => req[r].heard = FileOf(r, TRUE)

\* C6: every fatal failure ends the request with a failure response carrying a
\* message; no success response carries a default standing in for a missing
\* value (a sentiment call that returned no content included).
C6_NoSilentDefault ==
  \A r \in Req :
    Finished(r) =>
      /\ req[r].response.status # 200 => req[r].response.error # ""
      /\ req[r].response.status = 200 =>
           /\ req[r].response.body.success
           /\ req[r].response.body.transcription # 0
           /\ req[r].response.body.sentiment \notin {"", DefaultSentiment}

\* C11: when POST has returned, on the success path and on every failure path,
\* no temporary audio file written by the request is left, unless the
\* request's unlink call failed.
C11_TempFileRemoved ==
  \A r \in Req :
    (Finished(r) /\ req[r].cleanup # "failed") => \A t \in Clock : tmp[t].by # r

C11_Witness ==
  \E r1 \in Req, r2 \in Req :
    /\ Finished(r1) /\ req[r1].cleanup = "removed" /\ req[r1].response.status = 200
    /\ Finished(r2) /\ req[r2].cleanup = "removed" /\ req[r2].response.status = 500

(***************************************************************************)
(* Claims about runPythonScript                                            *)
(***************************************************************************)
\* some contiguous part of the text is a JSON object
ContainsJson(out) ==
  \E i \in 1..Len(out) : \E j \in i..Len(out) : Parseable(SubSeq(out, i, j))

PyTerminated == py.closed \/ py.errored
PyGoodClose == py.closed /\ py.code = 0 /\ ContainsJson(py.atClose)

\* C10: once the process has emitted 'close' or 'error' the promise is settled,
\* whatever the order of the events: it is resolved only if the process closed
\* with code 0 and the stdout accumulated up to the close contains a parseable
\* JSON object, and then with the parsed result; in every other terminating
\* case (spawn error, non-zero code, no or invalid JSON) it is rejected.
C10_ExplicitOutcome ==
  /\ PyTerminated => py.promise.state # "pending"
  /\ py.promise.state = "resolved" =>
       /\ PyGoodClose
       /\ \E i \in 1..Len(py.atClose) : \E j \in i..Len(py.atClose) :
            /\ Parseable(SubSeq(py.atClose, i, j))
            /\ py.promise.value = JSONparse(SubSeq(py.atClose, i, j))
  /\ (PyTerminated /\ ~PyGoodClose) => py.promise.state = "rejected"
  /\ ~PyTerminated => py.promise.state = "pending"

C10_Witness ==
  /\ py.closed /\ py.promise.state = "resolved"
  /\ py.promise.value.success
  /\ Len(py.atClose) = 3

(***************************************************************************)
(* Claims about the page                                                   *)
(***************************************************************************)
\* the calls of handleUpload that have started and not ended
InFlight == {u \in Uploads : page.calls[u].pc \in {"fetch", "json"}}

\* the last upload has been handled and did not fail
UploadSucceeded == InFlight = {} /\ page.uploads > 0 /\ page.error = ""

\* C7: after a successful upload the result view is given the transcript text,
\* the sentiment text, the speaker_analysis and the comparison of the response.
C7_ResultDelivered ==
  UploadSucceeded =>
    /\ HomeView(page).shown
    /\ HomeView(page).transcription = page.data.transcription
    /\ HomeView(page).sentiment = page.data.sentiment
    /\ HomeView(page).speaker_analysis = page.data.speaker_analysis
    /\ HomeView(page).comparison = page.data.comparison

\* C12: at most one upload request is in flight at any time, and isLoading is
\* true as long as a call of handleUpload has not been fully handled.
C12_OneUploadInFlight ==
  /\ Cardinality(InFlight) <= 1
  /\ InFlight # {} => page.isLoading

\* C13: every upload started by handleUpload eventually finishes, and the step
\* that finishes it leaves isLoading false, whether the request succeeded, the
\* server answered with an error, the body was no JSON or fetch threw.
C13_UploadFinishes ==
  /\ \A u \in Uploads :
       (u \in InFlight) ~> (page.calls[u].pc = "done" /\ ~page.isLoading)
  /\ [][\A u \in Uploads :
          (page.calls[u].pc # "done" /\ page'.calls[u].pc = "done")
             => ~page'.isLoading]_vars

C13_Witness ==
  /\ page.uploads = MaxUploads /\ InFlight = {}
  /\ page.error = SyntaxMsg /\ ~page.isLoading

\* C14: an error message and a transcription result are never both set: when
\* error is set, transcription and sentiment are empty.
C14_ErrorExcludesResult ==
  page.error # "" => page.transcription = 0 /\ page.sentiment = ""

(***************************************************************************)
(* Claims about the result view                                            *)
(***************************************************************************)
Abs(x) == IF x < 0 THEN -x ELSE x
\* two displays show the same share of the full score, to the rounding of a
\* percentage (one point)
SameShare(a, b) == Abs(a.num * b.den - b.num * a.den) * 100 <= a.den * b.den

\* C8: every score field is read on one scale wherever it is displayed: two
\* displays of the same field in one render show the same share of the full
\* score.
C8_OneScale ==
  \A a \in view.shows : \A b \in view.shows : a.field = b.field => SameShare(a, b)

(***************************************************************************)
(* Claims about the Scoring Engine                                         *)
(***************************************************************************)
InUnit(x) == FLe(Zero, x) /\ FLe(x, One)
ScoresInUnit ==
  /\ InUnit(sc.score.pace_score)
  /\ InUnit(sc.score.confidence_score)
  /\ InUnit(sc.score.pause_score)
  /\ InUnit(sc.score.overall_score)
NonNegativeWeights == \A i \in 1..3 : sc.config.weights[i] >= 0

====
